---- MODULE Spec2Model ----
(***************************************************************************)
(* scripts/add_bson_tags.py: the batch that adds a bson tag between the    *)
(* json and db tags of every struct field of the model directory.          *)
(*                                                                         *)
(* Text is modelled character by character: a text is a sequence of        *)
(* one-character strings, and the regular expression, the substring tests  *)
(* and the splits work on those characters as the Python code does.        *)
(***************************************************************************)
EXTENDS Integers, Sequences, FiniteSets, TLC

(***************************************************************************)
(* Literals of the script                                                  *)
(***************************************************************************)
Q == "\""

\* the bson marker of lines 23 and 55
MARKER == <<"b", "s", "o", "n", ":", Q>>

\* the literal head of the pattern of line 49
JSON_OPEN == <<"j", "s", "o", "n", ":", Q>>

\* the literal between the two groups of the pattern of line 49
DB_OPEN == <<Q, " ", "d", "b", ":", Q>>

\* the literal between json_val and bson_val in line 47
BSON_OPEN == <<Q, " ", "b", "s", "o", "n", ":", Q>>

\* ',omitempty'  (lines 35 and 45)
OMITEMPTY == <<",", "o", "m", "i", "t", "e", "m", "p", "t", "y">>

\* '_test.go'  (line 17)
TEST_SUFFIX == <<"_", "t", "e", "s", "t", ".", "g", "o">>

\* '.go' of the glob pattern '*.go'  (line 16)
GO_SUFFIX == <<".", "g", "o">>

(***************************************************************************)
(* Strings                                                                 *)
(***************************************************************************)
\* p occurs in s at position i
IsAt(s, i, p) ==
    /\ i >= 1
    /\ i + Len(p) - 1 <= Len(s)
    /\ \A k \in 1..Len(p) : s[i + k - 1] = p[k]

\* Python's  p in s
Contains(s, p) == \E i \in 1..Len(s) : IsAt(s, i, p)

\* Python's  s.endswith(p)
EndsWith(s, p) == IsAt(s, Len(s) - Len(p) + 1, p)

\* position of the first character c of s at or after i, 0 when there is none
IndexFrom(s, c, i) ==
    LET hits == {k \in i..Len(s) : s[k] = c}
    IN  IF hits = {} THEN 0 ELSE CHOOSE k \in hits : \A h \in hits : k <= h

\* Python's  v.split(',')[0]
SplitFirst(v) ==
    LET c == IndexFrom(v, ",", 1)
    IN  IF c = 0 THEN v ELSE SubSeq(v, 1, c - 1)

(***************************************************************************)
(* The regular expression of line 49: the json tag, one space, the db tag *)
(***************************************************************************)
NoMatch == [ok |-> FALSE]

\* the match of the pattern that starts at position i of s, if any.
\* Each group takes non-quote characters and is followed by a quote in the
\* pattern, so it runs to the next quote of the text and nowhere else.
MatchAt(s, i) ==
    IF ~IsAt(s, i, JSON_OPEN) THEN NoMatch
    ELSE LET q1 == IndexFrom(s, Q, i + Len(JSON_OPEN))
         IN  IF q1 = 0 \/ ~IsAt(s, q1, DB_OPEN) THEN NoMatch
             ELSE LET q2 == IndexFrom(s, Q, q1 + Len(DB_OPEN))
                  IN  IF q2 = 0 THEN NoMatch
                      ELSE [ok    |-> TRUE,
                            start |-> i,
                            q1    |-> q1,
                            end   |-> q2,
                            g1    |-> SubSeq(s, i + Len(JSON_OPEN), q1 - 1),
                            g2    |-> SubSeq(s, q1 + Len(DB_OPEN), q2 - 1)]

\* the leftmost non-overlapping matches of the pattern in s from position i on,
\* in the order re.sub visits them
RECURSIVE Matches(_, _)
Matches(s, i) ==
    IF i > Len(s) THEN <<>>
    ELSE LET m == MatchAt(s, i)
         IN  IF m.ok THEN <<m>> \o Matches(s, m.end + 1)
             ELSE Matches(s, i + 1)

(***************************************************************************)
(* replace_json_db (lines 30-47)                                           *)
(***************************************************************************)
json_name(json_val) == SplitFirst(json_val)

omitempty(json_val) == Contains(json_val, OMITEMPTY)

\* bson_name without the branch for id
bson_name_noid(json_val, db_val) ==
    IF json_name(json_val) = <<"-">> THEN SplitFirst(db_val)
    ELSE json_name(json_val)

bson_name(json_val, db_val) ==
    IF json_name(json_val) = <<"-">> THEN SplitFirst(db_val)
    ELSE IF json_name(json_val) = <<"i", "d">> THEN <<"_", "i", "d">>
    ELSE json_name(json_val)

bson_val(json_val, db_val) ==
    bson_name(json_val, db_val)
        \o (IF omitempty(json_val) THEN OMITEMPTY ELSE <<>>)

\* the returned string with the derived value put in the json tag instead of
\* in a tag of its own
replace_json_db_overwrite(json_val, db_val) ==
    JSON_OPEN \o bson_val(json_val, db_val) \o DB_OPEN \o db_val \o <<Q>>

\* the returned string with the bson tag put after the db tag
replace_json_db_after(json_val, db_val) ==
    JSON_OPEN \o json_val \o DB_OPEN \o db_val
        \o BSON_OPEN \o bson_val(json_val, db_val) \o <<Q>>

\* the returned f-string of line 47
replace_json_db(json_val, db_val) ==
    JSON_OPEN \o json_val \o BSON_OPEN \o bson_val(json_val, db_val)
        \o DB_OPEN \o db_val \o <<Q>>

\* the locals of the call of replace_json_db for the match m
Call(m) ==
    [json_val  |-> m.g1,
     db_val    |-> m.g2,
     json_name |-> json_name(m.g1),
     omitempty |-> omitempty(m.g1),
     bson_name |-> bson_name(m.g1, m.g2),
     bson_val  |-> bson_val(m.g1, m.g2),
     start     |-> m.start,
     q1        |-> m.q1,
     end       |-> m.end,
     repl      |-> replace_json_db(m.g1, m.g2)]

\* the calls re.sub makes on s, in order
Calls(s) == LET ms == Matches(s, 1) IN [k \in 1..Len(ms) |-> Call(ms[k])]

\* re.sub joins the text between the matches with what the calls return
RECURSIVE Join(_, _, _, _)
Join(s, cs, k, pos) ==
    IF k > Len(cs) THEN SubSeq(s, pos, Len(s))
    ELSE SubSeq(s, pos, cs[k].start - 1) \o cs[k].repl
             \o Join(s, cs, k + 1, cs[k].end + 1)

\* re.sub(pattern, replace_json_db, s) of line 49
ReSub(s) == Join(s, Calls(s), 1, 1)

\* the number of non-overlapping markers re.findall finds in s from i on (line 55)
RECURSIVE CountMarkerFrom(_, _)
CountMarkerFrom(s, i) ==
    IF i > Len(s) THEN 0
    ELSE IF IsAt(s, i, MARKER) THEN 1 + CountMarkerFrom(s, i + Len(MARKER))
    ELSE CountMarkerFrom(s, i + 1)

CountMarker(s) == CountMarkerFrom(s, 1)

\* the substring test with = for the colon of the marker
HasMarker_typo(s) == Contains(s, <<"b", "s", "o", "n", "=", Q>>)

\* the substring test of line 23
HasMarker(s) == Contains(s, MARKER)

\* the comparison dropped: every file that reaches line 51 is written
Changed_always(new, old) == TRUE

\* content != original (line 51)
Changed(new, old) == new # old

(***************************************************************************)
(* File selection (lines 14-18)                                            *)
(***************************************************************************)
\* code points of the characters of the file names
Ord(c) ==
    CASE c = "." -> 46
      [] c = "_" -> 95
      [] c = "a" -> 97
      [] c = "b" -> 98
      [] c = "c" -> 99
      [] c = "e" -> 101
      [] c = "g" -> 103
      [] c = "h" -> 104
      [] c = "o" -> 111
      [] c = "s" -> 115
      [] c = "t" -> 116
      [] c = "x" -> 120

\* Python's string order: x < y
StrLess(x, y) ==
    \E k \in 1..(Len(y)) :
        /\ k <= Len(x) + 1
        /\ \A j \in 1..(k - 1) : x[j] = y[j]
        /\ \/ k = Len(x) + 1
           \/ k <= Len(x) /\ Ord(x[k]) < Ord(y[k])

\* glob's '*.go': the name ends in .go; a name that starts with a dot is hidden
\* and matched only by a pattern that starts with a dot
GlobGo(name) == EndsWith(name, GO_SUFFIX) /\ name[1] # "."

\* the suffix test without the extension
IsTestFile_noext(name) == EndsWith(name, <<"_", "t", "e", "s", "t">>)

\* filepath.endswith('_test.go') of line 17
IsTestFile(name) == EndsWith(name, TEST_SUFFIX)

\* sorted(...) of a set of names
RECURSIVE Sorted(_)
Sorted(S) ==
    IF S = {} THEN <<>>
    ELSE LET least == CHOOSE x \in S : \A y \in S \ {x} : StrLess(x, y)
         IN  <<least>> \o Sorted(S \ {least})

(***************************************************************************)
(* The directory and the texts the files start with                        *)
(***************************************************************************)
A_GO      == <<"a", ".", "g", "o">>
B_GO      == <<"b", ".", "g", "o">>
B_TEST_GO == <<"b", "_", "t", "e", "s", "t", ".", "g", "o">>
C_TXT     == <<"c", ".", "t", "x", "t">>
H_GO      == <<".", "h", ".", "g", "o">>

DirNames == {A_GO, B_GO, B_TEST_GO, C_TXT, H_GO}

\* sorted(glob.glob(os.path.join(model_dir, '*.go'))): every path has the same
\* directory prefix, so the paths are ordered as their base names are
GlobSorted == Sorted({n \in DirNames : GlobGo(n)})

\* the files the loop body reaches
Selected == {n \in DirNames : GlobGo(n) /\ ~IsTestFile(n)}

\* a struct field tagged as the docstring's rules show (lines 5-8)
Field(jv, dv) == JSON_OPEN \o jv \o DB_OPEN \o dv \o <<Q>>

NL == <<"\n">>
ID == <<"i", "d">>
OMIT == <<"o", "m", "i", "t", "e", "m", "p", "t", "y">>

\* a json tag, two spaces, a db tag: the pattern does not match this pair
Unmatched == JSON_OPEN \o <<"a", Q, " ", " ", "d", "b", ":", Q, "y", Q>>

UnmatchedThenId == Unmatched \o NL \o Field(ID \o <<",">> \o OMIT, <<"k">>)

Texts ==
    { Field(ID, ID),
      Field(<<"-">>, ID) \o NL \o Field(<<"a", ",">> \o OMIT, <<"y">>)
          \o NL \o Field(ID, <<"k">>),
      Field(<<"-">>, <<"y", ",">> \o OMIT),
      Field(<<"-", ",">> \o OMIT, <<"k">>),
      Field(<<"a", ",">> \o OMIT \o <<"x">>, <<"y">>),
      Field(<<"b", "s", "o", "n", ":", ",", "x">>, <<"y">>),
      MARKER \o <<"z", Q, " ">> \o Field(<<"a">>, <<"y">>),
      <<"x">>,
      <<>>,
      UnmatchedThenId,
      JSON_OPEN \o Field(<<"a">>, <<"y">>) }

\* what the files that the batch must not touch hold
OtherText == Field(ID, ID)

(***************************************************************************)
(* Bounds                                                                  *)
(***************************************************************************)
\* the batch is started at most MaxRuns times
MaxRuns == 3
\* at most MaxFaults runs end by a kill or an I/O error
MaxFaults == 1
\* the writer hands the file ChunkLen characters at a time
ChunkLen == 24

(***************************************************************************)
(* State                                                                   *)
(***************************************************************************)
VARIABLES
    fs,        \* the directory: file name -> text on disk
    pc,        \* where the process is
    files,     \* the list the for loop iterates over
    idx,       \* position of the loop in files
    content,   \* the local variable content
    original,  \* the local variable original
    written,   \* characters of content the open file has taken
    out,       \* the lines printed by this run
    calls,     \* the calls of replace_json_db made for the current file
    fs0,       \* history: the directory before the first run
    snap,      \* history: the directory when this run started
    prevOut,   \* history: the lines printed by the run before this one
    ends,      \* history: how the earlier runs ended, in order
    reads,     \* history: the files this run has opened for reading
    opens      \* history: file name -> times this run opened it for writing

vars == <<fs, pc, files, idx, content, original, written, out, calls,
          fs0, snap, prevOut, ends, reads, opens>>

locals == <<content, original, written, calls>>
history == <<fs0, snap, prevOut, ends>>

Stopped == {"idle", "done", "killed", "failed"}
Running == {"loop", "loaded", "compare", "writing"}

filepath == files[idx]

Faults == Cardinality({k \in 1..Len(ends) : ends[k] # "done"})

Min(a, b) == IF a < b THEN a ELSE b

Init ==
    /\ \E sel \in [Selected -> Texts] :
           fs = [n \in DirNames |-> IF n \in Selected THEN sel[n] ELSE OtherText]
    /\ pc = "idle"
    /\ files = <<>>
    /\ idx = 1
    /\ content = <<>>
    /\ original = <<>>
    /\ written = 0
    /\ out = <<>>
    /\ calls = <<>>
    /\ fs0 = fs
    /\ snap = fs
    /\ prevOut = <<>>
    /\ ends = <<>>
    /\ reads = {}
    /\ opens = [n \in DirNames |-> 0]

(***************************************************************************)
(* The run of the script                                                   *)
(***************************************************************************)
\* the process starts: line 16 evaluates the sorted glob once
StartRun ==
    /\ pc \in Stopped
    /\ Len(ends) < MaxRuns
    /\ pc' = "loop"
    /\ files' = GlobSorted
    /\ idx' = 1
    /\ snap' = fs
    /\ prevOut' = out
    /\ out' = <<>>
    /\ reads' = {}
    /\ opens' = [n \in DirNames |-> 0]
    /\ content' = <<>> /\ original' = <<>> /\ written' = 0 /\ calls' = <<>>
    /\ UNCHANGED <<fs, fs0, ends>>

\* lines 17-18: a test file is passed over
SkipTest ==
    /\ pc = "loop" /\ idx <= Len(files)
    /\ IsTestFile(filepath)
    /\ idx' = idx + 1
    /\ UNCHANGED <<fs, pc, files, out, locals, history, reads, opens>>

\* lines 20-21
ReadFile ==
    /\ pc = "loop" /\ idx <= Len(files)
    /\ ~IsTestFile(filepath)
    /\ content' = fs[filepath]
    /\ reads' = reads \cup {filepath}
    /\ pc' = "loaded"
    /\ UNCHANGED <<fs, files, idx, original, written, out, calls, history, opens>>

\* lines 23-25
SkipMarked ==
    /\ pc = "loaded"
    /\ HasMarker(content)
    /\ out' = Append(out, [file |-> filepath, kind |-> "SKIP", changes |-> 0])
    /\ idx' = idx + 1
    /\ pc' = "loop"
    /\ UNCHANGED <<fs, files, locals, history, reads, opens>>

\* lines 27-49
Rewrite ==
    /\ pc = "loaded"
    /\ ~HasMarker(content)
    /\ original' = content
    /\ calls' = Calls(content)
    /\ content' = ReSub(content)
    /\ pc' = "compare"
    /\ UNCHANGED <<fs, files, idx, written, out, history, reads, opens>>

\* lines 51, 57-58
NoChanges ==
    /\ pc = "compare"
    /\ ~Changed(content, original)
    /\ out' = Append(out, [file |-> filepath, kind |-> "No changes", changes |-> 0])
    /\ idx' = idx + 1
    /\ pc' = "loop"
    /\ UNCHANGED <<fs, files, locals, history, reads, opens>>

\* lines 51-52: open(filepath, 'w') truncates the file
OpenWrite ==
    /\ pc = "compare"
    /\ Changed(content, original)
    /\ fs' = [fs EXCEPT ![filepath] = <<>>]
    /\ opens' = [opens EXCEPT ![filepath] = @ + 1]
    /\ written' = 0
    /\ pc' = "writing"
    /\ UNCHANGED <<files, idx, content, original, out, calls, history, reads>>

\* line 53 and the close of the with block: the text reaches the file a
\* buffer at a time
FlushChunk ==
    /\ pc = "writing"
    /\ written < Len(content)
    /\ written' = Min(written + ChunkLen, Len(content))
    /\ fs' = [fs EXCEPT ![filepath] = SubSeq(content, 1, written')]
    /\ UNCHANGED <<pc, files, idx, content, original, out, calls, history, reads, opens>>

\* lines 54-56
ReportUpdated ==
    /\ pc = "writing"
    /\ written = Len(content)
    /\ out' = Append(out, [file |-> filepath, kind |-> "Updated",
                           changes |-> CountMarker(content)])
    /\ idx' = idx + 1
    /\ pc' = "loop"
    /\ UNCHANGED <<fs, files, locals, history, reads, opens>>

\* the loop is exhausted and the process exits
Finish ==
    /\ pc = "loop" /\ idx > Len(files)
    /\ pc' = "done"
    /\ ends' = Append(ends, "done")
    /\ UNCHANGED <<fs, files, idx, out, locals, fs0, snap, prevOut, reads, opens>>

\* open() of line 20 raises: nothing catches it
ReadError ==
    /\ pc = "loop" /\ idx <= Len(files)
    /\ ~IsTestFile(filepath)
    /\ Faults < MaxFaults
    /\ reads' = reads \cup {filepath}
    /\ pc' = "failed"
    /\ ends' = Append(ends, "failed")
    /\ UNCHANGED <<fs, files, idx, out, locals, fs0, snap, prevOut, opens>>

\* open() of line 52 raises: the file is not truncated
OpenError ==
    /\ pc = "compare"
    /\ Changed(content, original)
    /\ Faults < MaxFaults
    /\ pc' = "failed"
    /\ ends' = Append(ends, "failed")
    /\ UNCHANGED <<fs, files, idx, out, locals, fs0, snap, prevOut, reads, opens>>

\* write() of line 53 or the close of the with block raises (disk full, I/O
\* error): the file keeps what it had taken
WriteError ==
    /\ pc = "writing"
    /\ written < Len(content)
    /\ Faults < MaxFaults
    /\ pc' = "failed"
    /\ ends' = Append(ends, "failed")
    /\ UNCHANGED <<fs, files, idx, out, locals, fs0, snap, prevOut, reads, opens>>

\* the process is terminated from outside
Kill ==
    /\ pc \in Running
    /\ Faults < MaxFaults
    /\ pc' = "killed"
    /\ ends' = Append(ends, "killed")
    /\ UNCHANGED <<fs, files, idx, out, locals, fs0, snap, prevOut, reads, opens>>

Next ==
    \/ StartRun
    \/ SkipTest
    \/ ReadFile
    \/ SkipMarked
    \/ Rewrite
    \/ NoChanges
    \/ OpenWrite
    \/ FlushChunk
    \/ ReportUpdated
    \/ Finish
    \/ ReadError
    \/ OpenError
    \/ WriteError
    \/ Kill

Spec == Init /\ [][Next]_vars

(***************************************************************************)
(* Definitions the properties are stated with                              *)
(***************************************************************************)
\* the previous run and this one both ran to the end of the list
TwoCompleteRuns ==
    /\ pc = "done"
    /\ Len(ends) >= 2
    /\ ends[Len(ends) - 1] = "done"

\* the directory a single run without kill or error leaves from directory d
BatchResult(d) ==
    [n \in DirNames |->
        IF n \in Selected /\ ~HasMarker(d[n]) THEN ReSub(d[n]) ELSE d[n]]

\* the first comma-separated component of v: the prefix without comma that
\* ends v or is followed by a comma
FirstComponent(v) ==
    CHOOSE p \in {SubSeq(v, 1, k) : k \in 0..Len(v)} :
        /\ \A j \in 1..Len(p) : p[j] # ","
        /\ Len(p) = Len(v) \/ v[Len(p) + 1] = ","

\* the comma-separated components of v that follow the first one
RECURSIVE Components(_)
Components(v) ==
    LET c == IndexFrom(v, ",", 1)
    IN  IF c = 0 THEN {}
        ELSE LET rest == SubSeq(v, c + 1, Len(v))
             IN  {FirstComponent(rest)} \cup Components(rest)

\* s holds a json tag, one space and a db tag
HasPair(s) ==
    \E i \in 1..Len(s) :
        /\ IsAt(s, i, JSON_OPEN)
        /\ \E a \in (i + Len(JSON_OPEN))..Len(s) :
              /\ IsAt(s, a, DB_OPEN)
              /\ \A j \in (i + Len(JSON_OPEN))..(a - 1) : s[j] # Q
              /\ \E b \in (a + Len(DB_OPEN))..Len(s) :
                    /\ s[b] = Q
                    /\ \A j \in (a + Len(DB_OPEN))..(b - 1) : s[j] # Q

\* the substring the rewrite adds for the call c
Inserted(c) == <<" ">> \o MARKER \o c.bson_val \o <<Q>>

InsertAt(text, pos, ins) ==
    SubSeq(text, 1, pos) \o ins \o SubSeq(text, pos + 1, Len(text))

DeleteAt(text, pos, n) ==
    SubSeq(text, 1, pos) \o SubSeq(text, pos + n + 1, Len(text))

\* old with Inserted(c) put after the closing quote of the json tag of each of
\* the calls cs[1..k]
RECURSIVE InsertAll(_, _, _)
InsertAll(old, cs, k) ==
    IF k = 0 THEN old
    ELSE InsertAll(InsertAt(old, cs[k].q1, Inserted(cs[k])), cs, k - 1)

\* the characters inserted before the json tag of call k ends
RECURSIVE Shift(_, _)
Shift(cs, k) ==
    IF k <= 1 THEN 0 ELSE Shift(cs, k - 1) + Len(Inserted(cs[k - 1]))

\* new with the inserted substring of each of the calls cs[1..k] deleted
RECURSIVE DeleteAll(_, _, _)
DeleteAll(new, cs, k) ==
    IF k = 0 THEN new
    ELSE DeleteAll(DeleteAt(new, cs[k].q1 + Shift(cs, k), Len(Inserted(cs[k]))),
                   cs, k - 1)

LastOut == out[Len(out)]

(***************************************************************************)
(* Properties                                                              *)
(***************************************************************************)

\* C1: two runs in succession, both complete, leave every file with the
\* content the first run left.
C1_Idempotent == TwoCompleteRuns => fs = snap

\* two complete runs in succession, the first of which rewrote a file
C1_Witness == TwoCompleteRuns /\ fs = snap /\ snap # fs0 /\ Len(ends) = 2

\* C2 as stated: the run that follows a complete run reports every selected
\* file as SKIP.
C2_AllSkipped ==
    TwoCompleteRuns =>
        /\ {out[k].file : k \in 1..Len(out)} = Selected
        /\ \A k \in 1..Len(out) : out[k].kind = "SKIP"

\* C2 amended: the run that follows a complete run reports no file as
\* Updated; it reports SKIP for every file the first run reported Updated or
\* SKIP, and No changes for every file the first run reported No changes.
C2_SecondRunReports ==
    TwoCompleteRuns =>
        /\ {out[k].file : k \in 1..Len(out)} = Selected
        /\ Len(out) = Len(prevOut)
        /\ \A k \in 1..Len(out) :
              /\ out[k].file = prevOut[k].file
              /\ out[k].kind = IF prevOut[k].kind = "No changes"
                               THEN "No changes" ELSE "SKIP"

\* a second complete run after a first one that reported Updated, SKIP or No
\* changes for different files
C2_Witness ==
    /\ TwoCompleteRuns
    /\ \E k \in 1..Len(prevOut) : prevOut[k].kind = "Updated" /\ out[k].kind = "SKIP"
    /\ \E k \in 1..Len(prevOut) : prevOut[k].kind = "No changes"

\* C3: for every matched pair the bson name is the first component of the db
\* value when the first component of the json value is -, else _id when it is
\* id, else that first component itself.
C3_NameDerivation ==
    \A k \in 1..Len(calls) :
        LET c  == calls[k]
            fn == FirstComponent(c.json_val)
        IN  c.bson_name =
                IF fn = <<"-">> THEN FirstComponent(c.db_val)
                ELSE IF fn = ID THEN <<"_", "i", "d">>
                ELSE fn

\* one file whose pairs take the three cases
C3_Witness ==
    /\ pc = "compare"
    /\ \E k \in 1..Len(calls) : FirstComponent(calls[k].json_val) = <<"-">>
    /\ \E k \in 1..Len(calls) : FirstComponent(calls[k].json_val) = ID
    /\ \E k \in 1..Len(calls) : FirstComponent(calls[k].json_val) \notin {<<"-">>, ID}

\* C4: for every matched pair the bson value is the bson name followed by
\* ,omitempty exactly when omitempty is one of the comma-separated components
\* of the json value after the field name; the db value plays no part.
C4_ModifierFromJson ==
    \A k \in 1..Len(calls) :
        LET c == calls[k]
        IN  c.bson_val = c.bson_name
                \o (IF OMIT \in Components(c.json_val) THEN OMITEMPTY ELSE <<>>)

C6_WriteCondition ==
    /\ \A n \in DirNames :
          /\ opens[n] <= 1
          /\ opens[n] = 1 => n \in Selected /\ ~HasMarker(snap[n]) /\ HasPair(snap[n])
          /\ opens[n] = 0 => fs[n] = snap[n]
          /\ HasMarker(snap[n]) \/ ~HasPair(snap[n]) => opens[n] = 0
    /\ \A k \in 1..Len(out) :
          /\ out[k].kind = "SKIP" <=> HasMarker(snap[out[k].file])
          /\ out[k].kind = "No changes" <=>
                 ~HasMarker(snap[out[k].file]) /\ ~HasPair(snap[out[k].file])

\* a complete run that wrote one file, skipped one with the marker and a pair
C6_Witness ==
    /\ pc = "done"
    /\ \E n \in Selected : opens[n] = 1 /\ fs[n] # snap[n]
    /\ \E n \in Selected : opens[n] = 0 /\ HasMarker(snap[n]) /\ HasPair(snap[n])

\* C7: when the batch is killed at any point and then started again, the run
\* that completes leaves every file with the content a single uninterrupted
\* run on the original directory leaves (so no partly written file remains).
C7_RestartEquivalence ==
    (pc = "done" /\ \A k \in 1..Len(ends) : ends[k] # "failed")
        => fs = BatchResult(fs0)

\* C8: the list is in sorted order; when a read or write raises, no later file
\* of the list has been read or written, every earlier file has the content
\* the run gives it, and a later run without error ends with the directory a
\* single run without error leaves.
C8_FailFast ==
    /\ \A i, j \in 1..Len(files) : i < j => StrLess(files[i], files[j])
    /\ pc = "failed" =>
          /\ \A j \in (idx + 1)..Len(files) :
                /\ files[j] \notin reads
                /\ opens[files[j]] = 0
                /\ fs[files[j]] = snap[files[j]]
          /\ \A j \in 1..(idx - 1) : fs[files[j]] = BatchResult(snap)[files[j]]
    /\ (pc = "done" /\ \A k \in 1..Len(ends) : ends[k] # "killed")
           => fs = BatchResult(fs0)

\* C9: the count printed with Updated is the number of pairs matched and
\* rewritten in that file, and is at least 1.
C9_ReportedCount ==
    (pc = "loop" /\ out # <<>> /\ LastOut.kind = "Updated") =>
        /\ LastOut.changes = Len(calls)
        /\ LastOut.changes >= 1

\* C10: after a complete run every file the glob matches that is no test file
\* has the marker or has no pair; files the loop does not select are never
\* read or written; a file reported Updated has the marker, and a file that
\* has the marker when a run starts keeps its bytes throughout that run, so a
\* pair the pattern did not match in it stays as it is.
C10_Completeness ==
    /\ pc = "done" =>
          \A n \in DirNames :
              (GlobGo(n) /\ ~EndsWith(n, TEST_SUFFIX))
                  => HasMarker(fs[n]) \/ ~HasPair(fs[n])
    /\ \A n \in DirNames :
          (EndsWith(n, TEST_SUFFIX) \/ ~GlobGo(n))
              => n \notin reads /\ opens[n] = 0 /\ fs[n] = fs0[n]
    /\ \A k \in 1..Len(out) :
          out[k].kind = "Updated" => HasMarker(fs[out[k].file])
    /\ \A n \in DirNames : HasMarker(snap[n]) => fs[n] = snap[n]

\* a later complete run over a file that was updated while one of its fields
\* did not match: the unmatched field is still there
C10_Witness ==
    /\ TwoCompleteRuns
    /\ \E n \in Selected :
          /\ fs0[n] = UnmatchedThenId
          /\ fs[n] = ReSub(UnmatchedThenId)
          /\ IsAt(fs[n], 1, Unmatched)
          /\ \E k \in 1..Len(prevOut) : prevOut[k].file = n /\ prevOut[k].kind = "Updated"
====
